---- MODULE Spec2Model ----
(***************************************************************************)
(* A model of pypbo/perf/metrics.py: the lower partial moment, the ratio   *)
(* family built on it (kappa, omega, sortino, sharpe), the Lo (2002)       *)
(* autocorrelation adjustment and the annualizers.                         *)
(*                                                                         *)
(* The functions are pure, so the state is the last call: the function     *)
(* called (fn), its arguments (args) and what the call produced (out).     *)
(* One action per function applies it to arguments drawn from small sets.  *)
(*                                                                         *)
(* Numbers.  Observations are fixed-point integers in units of 1/100 (so   *)
(* 30 is a return of +0.30), or NaN; no observation is infinite.         *)
(* Results are exact: a Num is NaN, +-inf, or the real number              *)
(* s * (p/q)^(1/r) in lowest terms, which covers                           *)
(* the rationals (r = 1) and the roots the ratios take (r = 2 for a        *)
(* standard deviation or a semi-deviation, r = n for kappa of order n).    *)
(* Division and multiplication follow IEEE-754 as numpy applies it to      *)
(* float64 values: x/0 is +-inf, 0/0 and inf*0 are NaN, NaN propagates.    *)
(* Rounding error, and the sign of zero, are not modelled.                 *)
(***************************************************************************)
EXTENDS Integers, Sequences, FiniteSets, TLC

VARIABLES fn, args, out

vars == <<fn, args, out>>

-----------------------------------------------------------------------------
(* Integer helpers *)

Abs(x) == IF x < 0 THEN -x ELSE x

Sign(x) == IF x < 0 THEN -1 ELSE IF x > 0 THEN 1 ELSE 0

RECURSIVE GCD(_, _)
GCD(a, b) == IF b = 0 THEN a ELSE GCD(b, a % b)

RECURSIVE IPow(_, _)
IPow(b, e) == IF e = 0 THEN 1 ELSE b * IPow(b, e - 1)

-----------------------------------------------------------------------------
(* float64 values, exactly *)

NumNaN == [k |-> "nan", s |-> 0, p |-> 0, q |-> 1, r |-> 1]

NumInf(sgn) == [k |-> "inf", s |-> sgn, p |-> 1, q |-> 0, r |-> 1]

NumZero == [k |-> "fin", s |-> 0, p |-> 0, q |-> 1, r |-> 1]

\* s * (p/q)^(1/r), p >= 0, q > 0, in lowest terms
Root(sgn, p, q, r) ==
  IF sgn = 0 \/ p = 0 THEN NumZero
  ELSE LET g == GCD(p, q)
       IN  [k |-> "fin", s |-> sgn, p |-> p \div g, q |-> q \div g, r |-> r]

\* the rational a/b, b > 0
Rat(a, b) == Root(Sign(a), Abs(a), b, 1)

IsNaN(x) == x.k = "nan"

IsFinite(x) == x.k = "fin"

\* a rational written as an r-th root, so that it combines with one
Lift(x, r) ==
  IF x.k # "fin" \/ x.s = 0 \/ x.r = r THEN x
  ELSE Root(x.s, IPow(x.p, r), IPow(x.q, r), r)

RootOf(x, y) == IF x.k = "fin" /\ x.s # 0 /\ x.r # 1 THEN x.r ELSE y.r

\* x * y
NumMul(x, y) ==
  IF x.k = "nan" \/ y.k = "nan" THEN NumNaN
  ELSE IF x.k = "inf" \/ y.k = "inf"
       THEN IF x.s = 0 \/ y.s = 0 THEN NumNaN ELSE NumInf(x.s * y.s)
  ELSE LET r == RootOf(x, y)
           a == Lift(x, r)
           b == Lift(y, r)
       IN  Root(a.s * b.s, a.p * b.p, a.q * b.q, r)

\* x / y
NumDiv(x, y) ==
  IF x.k = "nan" \/ y.k = "nan" THEN NumNaN
  ELSE IF x.k = "inf"
       THEN IF y.k = "inf" THEN NumNaN
            ELSE NumInf(IF y.s < 0 THEN -x.s ELSE x.s)
  ELSE IF y.k = "inf" THEN NumZero
  ELSE IF y.s = 0
       THEN IF x.s = 0 THEN NumNaN ELSE NumInf(x.s)
  ELSE LET r == RootOf(x, y)
           a == Lift(x, r)
           b == Lift(y, r)
       IN  Root(a.s * b.s, a.p * b.q, a.q * b.p, r)

\* x + y and x - y, for rationals
NumAdd(x, y) ==
  IF x.k = "nan" \/ y.k = "nan" THEN NumNaN
  ELSE IF x.k = "inf" /\ y.k = "inf"
       THEN IF x.s = y.s THEN x ELSE NumNaN
  ELSE IF x.k = "inf" THEN x
  ELSE IF y.k = "inf" THEN y
  ELSE Rat(x.s * x.p * y.q + y.s * y.p * x.q, x.q * y.q)

NumNeg(x) == IF x.k = "nan" THEN x ELSE [x EXCEPT !.s = -x.s]

NumSub(x, y) == NumAdd(x, NumNeg(y))

\* np.power(x, m) for a float x >= 0 and an integer m
NumPow(x, m) ==
  IF x.k = "nan" THEN NumNaN
  ELSE IF m = 0 THEN Rat(1, 1)
  ELSE IF x.k = "inf" THEN IF m > 0 THEN x ELSE NumZero
  ELSE IF x.s = 0 THEN IF m > 0 THEN NumZero ELSE NumInf(1)
  ELSE IF m > 0 THEN Rat(IPow(x.p, m), IPow(x.q, m))
  ELSE Rat(IPow(x.q, -m), IPow(x.p, -m))

\* np.power(x, 1.0 / m) for a rational x and an integer m # 0, NaN for x < 0;
\* np.sqrt(x) is NumRoot(x, 2)
NumRoot(x, m) ==
  IF x.k = "nan" \/ x.s < 0 THEN NumNaN
  ELSE IF x.k = "inf" THEN IF m > 0 THEN x ELSE NumZero
  ELSE IF x.s = 0 THEN IF m > 0 THEN NumZero ELSE NumInf(1)
  ELSE IF m > 0 THEN Root(1, x.p, x.q, m)
  ELSE Root(1, x.q, x.p, -m)

-----------------------------------------------------------------------------
(* Observations and series *)

NaN == [nan |-> TRUE, v |-> 0]

Fin(v) == [nan |-> FALSE, v |-> v]

\* the Num of an observation
Val(e) == IF e.nan THEN NumNaN ELSE Rat(e.v, 1)

Map(f(_), col) == [i \in 1..Len(col) |-> f(col[i])]

RECURSIVE NumSum(_)
NumSum(xs) == IF xs = <<>> THEN NumZero ELSE NumAdd(Head(xs), NumSum(Tail(xs)))

NotNaN(x) == ~IsNaN(x)

\* the mean over the values that are not NaN: pandas mean() (skipna=True)
\* and np.nanmean; NaN when there is none
NanMean(xs) ==
  LET ys == SelectSeq(xs, NotNaN)
  IN  IF ys = <<>> THEN NumNaN ELSE NumDiv(NumSum(ys), Rat(Len(ys), 1))

-----------------------------------------------------------------------------
(* Containers: a raw array (np.ndarray), a labeled series (pd.Series) or a  *)
(* labeled frame (pd.DataFrame), as the sequence of its columns.  A Series  *)
(* and a 1-D array have one column; a frame and a 2-D array have several.   *)

IsPandas(x) == x.kind \in {"Series", "DataFrame"}

Array(cols) == [kind |-> "ndarray", cols |-> cols]

Series(col) == [kind |-> "Series", cols |-> <<col>>]

DataFrame(cols) == [kind |-> "DataFrame", cols |-> cols]

NCols(x) == Len(x.cols)

\* the same operation on every column
EachCol(f(_), x) == [x EXCEPT !.cols = [c \in 1..Len(x.cols) |-> f(x.cols[c])]]

RECURSIVE Flatten(_)
Flatten(cols) == IF cols = <<>> THEN <<>> ELSE Head(cols) \o Flatten(Tail(cols))

\* x - t and t - x, elementwise; NaN stays NaN
SubElem(e, t) == IF e.nan THEN NaN ELSE Fin(e.v - t)

Sub(x, t) == EachCol(LAMBDA col : Map(LAMBDA e : SubElem(e, t), col), x)

RSubElem(t, e) == IF e.nan THEN NaN ELSE Fin(t - e.v)

\* 100 * ln(1 + v/100) to the nearest integer, for v = -90, -80, .., 100
LogTable ==
  <<-230, -161, -120, -92, -69, -51, -36, -22, -11, 0,
    10, 18, 26, 34, 41, 47, 53, 59, 64, 69>>

Log1p(v) == LogTable[(v \div 10) + 10]

\* fillna(0) and np.nan_to_num: a missing value becomes 0 (np.nan_to_num also
\* turns an infinity into the largest float; observations here are finite or NaN)
FillNa(e) == IF e.nan THEN Fin(0) ELSE e

pct_to_log_return(pct_returns) ==
  EachCol(LAMBDA col : Map(LAMBDA e : Fin(Log1p(FillNa(e).v)), col), pct_returns)

\* the membership test of validate_mean_method, in its place
validate_as_mean_method(return_type) == return_type \in {"gmean", "simple"}

\* TRUE when it returns, FALSE when it raises AssertionError
validate_return_type(return_type) == return_type \in {"pct", "log"}

\* np.maximum(x, 0), and ndarray.clip(min=0): NaN stays NaN
maxzero(e) == IF e.nan THEN NaN ELSE Fin(IF e.v > 0 THEN e.v ELSE 0)

-----------------------------------------------------------------------------
(* What a call produces: a value returned or an exception raised, and the  *)
(* numeric operations it ran on the series before that, in order.          *)

Return(v, tr) == [status |-> "return", exc |-> "", value |-> v, trace |-> tr]

Raise(e, tr) == [status |-> "raise", exc |-> e, value |-> <<>>, trace |-> tr]

\* the mean of each column of a value container
ColMeans(x) == [c \in 1..NCols(x) |-> NanMean(Map(Val, x.cols[c]))]

\* one value against each column's: scalar / vector, as numpy broadcasts
Broadcast(v, n) == [c \in 1..n |-> v]

-----------------------------------------------------------------------------
(* The lower partial moment and the ratios built on it *)

\* the moment of the deviations themselves, the shortfalls not cut at zero
LPMColUnclipped(col, target_rtn, moment) ==
  NanMean(Map(LAMBDA e : IF e.nan THEN NumNaN
                         ELSE LET d == target_rtn - e.v
                              IN  IF moment >= 0 THEN Rat(IPow(d, moment), 1)
                                  ELSE NumPow(Rat(d, 1), moment), col))

LPMCol(col, target_rtn, moment) ==
  NanMean(Map(LAMBDA e : NumPow(Val(maxzero(RSubElem(target_rtn, e))), moment), col))

\* both branches average over the values that are not NaN, column by column
LPM(returns, target_rtn, moment) ==
  [c \in 1..NCols(returns) |-> LPMCol(returns.cols[c], target_rtn, moment)]

KappaMean(excess) ==
  IF IsPandas(excess)
  THEN ColMeans(excess)
  ELSE Broadcast(NanMean(Map(Val, Flatten(excess.cols))), NCols(excess))

kappa(returns, target_rtn, moment, return_type) ==
  IF ~validate_return_type(return_type) THEN Raise("AssertionError", <<>>)
  ELSE LET excess == IF return_type = "pct"
                     THEN pct_to_log_return(Sub(returns, target_rtn))
                     ELSE Sub(returns, target_rtn)
           mean == KappaMean(excess)
           lpm == LPM(returns, target_rtn, moment)
           tr == <<"sub", "mean", "LPM">>
       IN  IF moment = 0 THEN Raise("ZeroDivisionError", tr)
           ELSE Return([c \in 1..NCols(returns) |->
                          NumDiv(mean[c], NumRoot(lpm[c], moment))],
                       tr \o <<"power", "div">>)

kappa3(returns, target_rtn, return_type) == kappa(returns, target_rtn, 3, return_type)

omega(returns, target_rtn, return_type) ==
  LET k == kappa(returns, target_rtn, 1, return_type)
  IN  IF k.status = "raise" THEN k
      ELSE Return([c \in 1..Len(k.value) |-> NumAdd(Rat(1, 1), k.value[c])],
                  k.trace \o <<"add">>)

SortinoMean(returns, target_rtn) ==
  IF IsPandas(returns)
  THEN [c \in 1..NCols(returns) |->
          NumSub(ColMeans(returns)[c], Rat(target_rtn, 1))]
  ELSE Broadcast(NanMean(Map(Val, Flatten(Sub(returns, target_rtn).cols))),
                 NCols(returns))

sortino(returns, target_rtn, factor, return_type) ==
  IF ~validate_return_type(return_type) THEN Raise("AssertionError", <<>>)
  ELSE LET rets == IF return_type = "pct" THEN pct_to_log_return(returns)
                   ELSE returns
           mean == SortinoMean(rets, target_rtn)
           lpm == LPM(rets, target_rtn, 2)
       IN  Return([c \in 1..NCols(rets) |->
                     NumMul(NumDiv(mean[c], NumRoot(lpm[c], 2)), Rat(factor, 1))],
                  <<"mean", "LPM", "sqrt", "div", "mul">>)

\* excess.where(x < 0) then fillna(0): what is not below zero, NaN included,
\* becomes 0
NegRtn(e) == IF ~e.nan /\ e.v < 0 THEN e ELSE Fin(0)

sortino_iid(df, bench, factor, return_type) ==
  IF ~validate_return_type(return_type) THEN Raise("AssertionError", <<>>)
  ELSE LET frame == IF df.kind = "ndarray" THEN DataFrame(df.cols) ELSE df
           excess == IF return_type = "pct"
                     THEN pct_to_log_return(Sub(frame, bench))
                     ELSE Sub(frame, bench)
           neg_rtns == EachCol(LAMBDA col : Map(NegRtn, col), excess)
           semi_std == [c \in 1..NCols(frame) |->
                          NumRoot(NanMean(Map(LAMBDA e : NumPow(Val(e), 2),
                                              neg_rtns.cols[c])), 2)]
           mean == ColMeans(excess)
       IN  Return([c \in 1..NCols(frame) |->
                     NumDiv(NumMul(Rat(factor, 1), mean[c]), semi_std[c])],
                  <<"sub", "where", "pow", "mean", "sqrt", "mean", "mul", "div">>)

-----------------------------------------------------------------------------
(* The Sharpe ratios *)

\* the sum of squared deviations from the mean, over the values given
SumSqDev(ys) ==
  LET m == NumDiv(NumSum(ys), Rat(Len(ys), 1))
  IN  NumSum(Map(LAMBDA y : NumPow(NumSub(y, m), 2), ys))

\* np.nanstd(x, axis=0, ddof=0): the population estimator
NanStdBiased(xs) ==
  LET ys == SelectSeq(xs, NotNaN)
  IN  IF Len(ys) = 0 THEN NumNaN
      ELSE NumRoot(NumDiv(SumSqDev(ys), Rat(Len(ys), 1)), 2)

\* np.nanstd(x, axis=0, ddof=1): NaN values are left out; NaN when no more
\* than ddof values remain
NanStd(xs) ==
  LET ys == SelectSeq(xs, NotNaN)
  IN  IF Len(ys) - 1 <= 0 THEN NumNaN
      ELSE NumRoot(NumDiv(SumSqDev(ys), Rat(Len(ys) - 1, 1)), 2)

\* pandas std(ddof=1), skipna=True: the same over the values present
PdStd(xs) ==
  LET ys == SelectSeq(xs, NotNaN)
      n == Len(ys)
  IN  IF n = 0 THEN NumNaN
      ELSE IF n = 1 THEN NumDiv(NumZero, NumZero)
      ELSE NumRoot(NumDiv(SumSqDev(ys), Rat(n - 1, 1)), 2)

sharpe_iid(df, bench, factor, return_type) ==
  IF ~validate_return_type(return_type) THEN Raise("AssertionError", <<>>)
  ELSE LET diff == Sub(df, bench)
           excess == IF return_type = "pct" THEN pct_to_log_return(diff) ELSE diff
           xs(c) == Map(Val, excess.cols[c])
       IN  IF IsPandas(df)
           THEN Return([c \in 1..NCols(df) |->
                          NumDiv(NumMul(Rat(factor, 1), NanMean(xs(c))), PdStd(xs(c)))],
                       <<"sub", "mean", "mul", "std", "div">>)
           ELSE Return([c \in 1..NCols(df) |->
                          NumDiv(NumMul(Rat(factor, 1), NanMean(xs(c))), NanStd(xs(c)))],
                       <<"sub", "nanmean", "mul", "nanstd", "div">>)

\* a window that needs one value only
MinPeriodsOne(window) == 1

\* rolling(window=w) with min_periods left out: a window needs w values
MinPeriods(window) == window

\* the window ending at row i
Window(xs, i, window) ==
  SubSeq(xs, IF i - window + 1 < 1 THEN 1 ELSE i - window + 1, i)

\* roll.mean() and roll.std(ddof=1) at row i: NaN unless the window holds at
\* least min_periods values that are not NaN
RollMean(xs, i, window) ==
  LET ys == SelectSeq(Window(xs, i, window), NotNaN)
  IN  IF Len(ys) < MinPeriods(window) THEN NumNaN ELSE NanMean(ys)

RollStd(xs, i, window) ==
  LET ys == SelectSeq(Window(xs, i, window), NotNaN)
  IN  IF Len(ys) < MinPeriods(window) THEN NumNaN ELSE PdStd(ys)

\* the value is one output per row of the (single) column
sharpe_iid_rolling(df, window, bench, factor, return_type) ==
  IF ~validate_return_type(return_type) THEN Raise("AssertionError", <<>>)
  ELSE LET diff == Sub(df, bench)
           excess == IF return_type = "pct" THEN pct_to_log_return(diff) ELSE diff
           xs == Map(Val, excess.cols[1])
       IN  IF ~IsPandas(df) THEN Raise("AttributeError", <<"sub">>)
           ELSE Return([i \in 1..Len(xs) |->
                          NumDiv(NumMul(Rat(factor, 1), RollMean(xs, i, window)),
                                 RollStd(xs, i, window))],
                       <<"sub", "rolling", "mean", "mul", "std", "div">>)

\* sharpe_iid_adjusted: the Sharpe ratio at factor 1, corrected by the skew and
\* the excess kurtosis of df and then scaled.  The correction is kept as a term
\* (the sample skew and kurtosis are functions of the column alone).
sharpe_iid_adjusted(df, bench, factor, return_type) ==
  LET sr == sharpe_iid(df, bench, 1, return_type)
  IN  IF sr.status = "raise" THEN sr
      ELSE Return([c \in 1..NCols(df) |->
                     [op |-> "adjusted_sharpe", sr |-> sr.value[c],
                      skew_kurtosis_of |-> df.cols[c], factor |-> factor]],
                  sr.trace \o <<"skew", "kurtosis", "adjusted_sharpe", "mul">>)

\* omega_empirical builds the two CDFs and returns nothing; plt is not
\* imported, so plotting ends in a NameError
omega_empirical(returns, target_rtn, return_type, plot) ==
  IF ~validate_return_type(return_type) THEN Raise("AssertionError", <<>>)
  ELSE LET tr == <<"ECDF", "linspace", "ecdf", "norm.cdf">>
       IN  IF plot THEN Raise("NameError", tr) ELSE Return(<<>>, tr)

-----------------------------------------------------------------------------
(* The autocorrelation adjustment.  sts.acf(returns, nlags=q, qstat=True) is *)
(* the statistics library's: its answer for a series is an input here, the   *)
(* autocorrelations acf[0..q] in units of 1/2 (as the sequence acf[1..q+1])  *)
(* and the Ljung-Box p-values for lags 1..q in units of 1/100.               *)

Acf(lib, lag) == Rat(lib.acf[lag + 1], 2)

\* the lags the sum runs over: k in range(q - 2) is lag k + 1 = 1 .. q - 2
LoLags(q) == 1..(q - 2)

\* every lag below q
LoLagsAll(q) == 1..(q - 1)

RECURSIVE LoSum(_, _, _)
LoSum(lib, q, lags) ==
  IF lags = {} THEN NumZero
  ELSE LET lag == CHOOSE l \in lags : TRUE
       IN  NumAdd(NumMul(Rat(q - lag, 1), Acf(lib, lag)),
                  LoSum(lib, q, lags \ {lag}))

\* q / sqrt(q + 2 * sum over the lags of (q - lag) * acf[lag])
LoFactor(lib, q, lags) ==
  NumDiv(Rat(q, 1),
         NumRoot(NumAdd(Rat(q, 1), NumMul(Rat(2, 1), LoSum(lib, q, lags))), 2))

\* the value is <<factor, pval[-2]>>; pval has q entries, so for q = 1 there
\* is no entry -2
sharpe_autocorr_factor(lib, q) ==
  IF Len(lib.pval) < 2 THEN Raise("IndexError", <<"acf", "sum", "sqrt">>)
  ELSE Return(<<LoFactor(lib, q, LoLags(q)), lib.pval[Len(lib.pval) - 1]>>,
              <<"acf", "sum", "sqrt">>)

\* np.round(q, 0) of q given in tenths: to the nearest integer, a half to the
\* even one
np_round(q10) ==
  LET f == q10 \div 10
      r == q10 % 10
  IN  IF r < 5 THEN f
      ELSE IF r > 5 THEN f + 1
      ELSE IF f % 2 = 0 THEN f ELSE f + 1

\* the test that also rejects at the critical value itself
RejectNullAtCritical(pval, p_critical) == pval <= p_critical

\* the strict comparison of the decision rule
RejectNull(pval, p_critical) == pval < p_critical

\* the scaling chosen from one test: adj_factor if pval < p_critical else sqrt(q)
Scaling(test, q, p_critical) ==
  IF RejectNull(test[2], p_critical) THEN test[1] ELSE NumRoot(Rat(q, 1), 2)

\* tests[c] is the library's answer for column c of a frame (for
\* df[col].dropna().values), tests[1] its answer for a series or an array
sharpe_non_iid(df, tests, bench, q10, p_critical, return_type) ==
  LET q == np_round(q10)
      sr == sharpe_iid(df, bench, 1, return_type)
      tr == sr.trace \o <<"acf", "sum", "sqrt">>
  IN  IF sr.status = "raise" THEN sr
      ELSE IF df.kind # "DataFrame"
      THEN LET test == sharpe_autocorr_factor(tests[1], q)
           IN  IF test.status = "raise" THEN Raise(test.exc, tr)
               ELSE Return(<<NumMul(sr.value[1], Scaling(test.value, q, p_critical))>>,
                           tr \o <<"mul">>)
      ELSE LET res == [c \in 1..NCols(df) |-> sharpe_autocorr_factor(tests[c], q)]
           IN  IF \E c \in 1..NCols(df) : res[c].status = "raise"
               THEN Raise("IndexError", tr)
               ELSE Return([c \in 1..NCols(df) |->
                              NumMul(Scaling(res[c].value, q, p_critical), sr.value[c])],
                           tr \o <<"mul">>)

-----------------------------------------------------------------------------
(* The annualizers.  An argument is a Python number ("py") or a numpy       *)
(* scalar ("np"); an operation with a numpy operand is numpy's.  Python's   *)
(* division by zero raises ZeroDivisionError, numpy's gives inf or NaN with *)
(* a RuntimeWarning.  Amounts are rationals; ann_factor is in days.         *)

PyNum(a, b) == [ty |-> "py", x |-> Rat(a, b)]

NpNum(a, b) == [ty |-> "np", x |-> Rat(a, b)]

Promote(a, b) == IF a.ty = "np" \/ b.ty = "np" THEN "np" ELSE "py"

\* a / b; the type "ZeroDivisionError" stands for the exception
TrueDiv(a, b) ==
  IF Promote(a, b) = "py" /\ b.x = NumZero
  THEN [ty |-> "ZeroDivisionError", x |-> NumNaN]
  ELSE [ty |-> Promote(a, b), x |-> NumDiv(a.x, b.x)]

\* np.power(base, e) - 1 for base > 0, as a term unless the exponent is
\* infinite: base ** inf is inf, 1 or 0, and NaN ** e is NaN
PowerMinus1(base, e) ==
  IF e.x.k = "nan" THEN [op |-> "value", x |-> NumNaN]
  ELSE IF e.x.k = "inf"
       THEN LET above == base.x.p > base.x.q
                one == base.x.p = base.x.q
            IN  [op |-> "value",
                 x |-> IF one THEN NumZero
                       ELSE IF (above /\ e.x.s > 0) \/ (~above /\ e.x.s < 0)
                            THEN NumInf(1) ELSE Rat(-1, 1)]
  ELSE [op |-> "power_minus_1", base |-> base.x, exponent |-> e.x]

annualized_pct_return(total_return, days, ann_factor) ==
  LET years == TrueDiv(days, ann_factor)
      inv == IF years.ty = "ZeroDivisionError" THEN years
             ELSE TrueDiv(PyNum(1, 1), years)
  IN  IF years.ty = "ZeroDivisionError" \/ inv.ty = "ZeroDivisionError"
      THEN Raise("ZeroDivisionError", <<>>)
      ELSE Return(PowerMinus1(total_return, inv), <<"power">>)

annualized_log_return(total_return, days, ann_factor) ==
  LET years == TrueDiv(days, ann_factor)
      ann == IF years.ty = "ZeroDivisionError" THEN years
             ELSE TrueDiv(total_return, years)
  IN  IF years.ty = "ZeroDivisionError" \/ ann.ty = "ZeroDivisionError"
      THEN Raise("ZeroDivisionError", <<>>)
      ELSE Return([op |-> "value", x |-> ann.x], <<"div">>)

-----------------------------------------------------------------------------
(* Inputs *)

\* the longest single series
MaxLen == 3

\* the most rows of a two-column input
MaxRows == 2

\* the widest rolling window
MaxWindow == 3

\* the longest aggregation horizon
MaxQ == 3

\* observations, in units of 1/100
Obs == {Fin(-50), Fin(-20), Fin(10), Fin(30), NaN}

Targets == {0, 10}

Factors == {1, 2}

ReturnTypes == {"pct", "log", "simple", "PCT"}

Moments == -1..3

Cols == UNION {[1..n -> Obs] : n \in 1..MaxLen}

\* a single series, as a raw array or labeled
Inputs1 == {Array(<<col>>) : col \in Cols} \cup {Series(col) : col \in Cols}

\* two series sharing one index, as a 2-D array or a frame
ColPairs == UNION {[1..n -> Obs] \X [1..n -> Obs] : n \in 1..MaxRows}

Inputs2 == {Array(cs) : cs \in ColPairs} \cup {DataFrame(cs) : cs \in ColPairs}

\* a few inputs of every kind
FewCols == [1..2 -> {Fin(-20), Fin(30)}]

InputsFew1 == {Array(<<col>>) : col \in FewCols} \cup {Series(col) : col \in FewCols}

InputsFew == InputsFew1 \cup {DataFrame(cs) : cs \in FewCols \X FewCols}

\* the library's answers for horizon q
AcfVals == {-1, 1}

PVals == {1, 5}

PCriticals == {5}

Libs(q) ==
  {[acf |-> <<2>> \o a, pval |-> pv] : a \in [1..q -> AcfVals], pv \in [1..q -> PVals]}

\* horizons in tenths: whole, just above, and a half
QInputs ==
  {10 * k : k \in 1..MaxQ} \cup {10 * k + 4 : k \in 1..MaxQ}
    \cup {10 * k + 5 : k \in 1..(MaxQ - 1)}

NonIidCols ==
  {<<Fin(-20), Fin(30), Fin(10)>>, <<Fin(10), NaN, Fin(-50)>>}

NonIidInputs ==
  {Array(<<col>>) : col \in NonIidCols} \cup {Series(col) : col \in NonIidCols}
    \cup {DataFrame(cs) : cs \in NonIidCols \X NonIidCols}

\* answers that differ in the first lags and the last, and in the p-value
\* at lag q - 1 and elsewhere
ThinLibs(q) ==
  {[acf |-> <<2>> \o [k \in 1..q |-> IF k < q - 1 THEN a[1] ELSE a[2]],
    pval |-> [k \in 1..q |-> IF k = q - 1 THEN pv[1] ELSE pv[2]]] :
     a \in AcfVals \X AcfVals, pv \in PVals \X PVals}

\* one answer per p-value
FewLibs(q) == {[acf |-> <<2>> \o [k \in 1..q |-> 1], pval |-> [k \in 1..q |-> pv]] : pv \in PVals}

Amounts(fracs) == {PyNum(f[1], f[2]) : f \in fracs} \cup {NpNum(f[1], f[2]) : f \in fracs}

TotalReturns == Amounts({<<1, 2>>, <<1, 1>>, <<3, 2>>, <<0, 1>>})

Days == Amounts({<<0, 1>>, <<365, 1>>, <<827, 1>>})

AnnFactors == Amounts({<<365, 1>>, <<255, 1>>})

-----------------------------------------------------------------------------
(* The state machine *)

Init ==
  /\ fn = "none"
  /\ args = [returns |-> Array(<<>>)]
  /\ out = Return(<<>>, <<>>)

\* a call is made from the idle state and its outcome is final: the functions
\* keep no state, so a second call would start from the same place
Idle == fn = "none"

LPMCall(inputs) ==
  /\ Idle
  /\ \E returns \in inputs, target_rtn \in Targets, moment \in Moments :
      /\ fn' = "LPM"
      /\ args' = [returns |-> returns, target_rtn |-> target_rtn, moment |-> moment]
      /\ out' = Return(LPM(returns, target_rtn, moment),
                       <<"sub", "clip", "power", "mean">>)

KappaCall(inputs, moments) ==
  /\ Idle
  /\ \E returns \in inputs, target_rtn \in Targets, moment \in moments,
       return_type \in ReturnTypes :
      /\ fn' = "kappa"
      /\ args' = [returns |-> returns, target_rtn |-> target_rtn, moment |-> moment,
                  factor |-> 1, return_type |-> return_type]
      /\ out' = kappa(returns, target_rtn, moment, return_type)

Kappa3Call(inputs) ==
  /\ Idle
  /\ \E returns \in inputs, target_rtn \in Targets, return_type \in ReturnTypes :
      /\ fn' = "kappa3"
      /\ args' = [returns |-> returns, target_rtn |-> target_rtn,
                  return_type |-> return_type]
      /\ out' = kappa3(returns, target_rtn, return_type)

OmegaCall(inputs) ==
  /\ Idle
  /\ \E returns \in inputs, target_rtn \in Targets, return_type \in ReturnTypes :
      /\ fn' = "omega"
      /\ args' = [returns |-> returns, target_rtn |-> target_rtn, moment |-> 1,
                  factor |-> 1, return_type |-> return_type]
      /\ out' = omega(returns, target_rtn, return_type)

OmegaEmpiricalCall(inputs) ==
  /\ Idle
  /\ \E returns \in inputs, target_rtn \in Targets, return_type \in ReturnTypes,
       plot \in BOOLEAN :
      /\ fn' = "omega_empirical"
      /\ args' = [returns |-> returns, target_rtn |-> target_rtn,
                  return_type |-> return_type, plot |-> plot]
      /\ out' = omega_empirical(returns, target_rtn, return_type, plot)

SortinoCall(inputs) ==
  /\ Idle
  /\ \E returns \in inputs, target_rtn \in Targets, factor \in Factors,
       return_type \in ReturnTypes :
      /\ fn' = "sortino"
      /\ args' = [returns |-> returns, target_rtn |-> target_rtn, moment |-> 2,
                  factor |-> factor, return_type |-> return_type]
      /\ out' = sortino(returns, target_rtn, factor, return_type)

SortinoIidCall(inputs) ==
  /\ Idle
  /\ \E df \in inputs, bench \in Targets, factor \in Factors,
       return_type \in ReturnTypes :
      /\ fn' = "sortino_iid"
      /\ args' = [returns |-> df, target_rtn |-> bench, factor |-> factor,
                  return_type |-> return_type]
      /\ out' = sortino_iid(df, bench, factor, return_type)

SharpeIidCall(inputs) ==
  /\ Idle
  /\ \E df \in inputs, bench \in Targets, factor \in Factors,
       return_type \in ReturnTypes :
      /\ fn' = "sharpe_iid"
      /\ args' = [returns |-> df, target_rtn |-> bench, moment |-> 0,
                  factor |-> factor, return_type |-> return_type]
      /\ out' = sharpe_iid(df, bench, factor, return_type)

SharpeIidRollingCall(inputs) ==
  /\ Idle
  /\ \E df \in inputs, window \in 1..MaxWindow, bench \in Targets,
       factor \in Factors, return_type \in ReturnTypes :
      /\ fn' = "sharpe_iid_rolling"
      /\ args' = [returns |-> df, window |-> window, target_rtn |-> bench,
                  factor |-> factor, return_type |-> return_type]
      /\ out' = sharpe_iid_rolling(df, window, bench, factor, return_type)

SharpeIidAdjustedCall(inputs) ==
  /\ Idle
  /\ \E df \in inputs, bench \in Targets, factor \in Factors,
       return_type \in ReturnTypes :
      /\ fn' = "sharpe_iid_adjusted"
      /\ args' = [returns |-> df, target_rtn |-> bench, factor |-> factor,
                  return_type |-> return_type]
      /\ out' = sharpe_iid_adjusted(df, bench, factor, return_type)

SharpeAutocorrFactorCall ==
  /\ Idle
  /\ \E q \in 1..MaxQ :
       \E lib \in Libs(q) :
         /\ fn' = "sharpe_autocorr_factor"
         /\ args' = [lib |-> lib, q |-> q]
         /\ out' = sharpe_autocorr_factor(lib, q)

\* libs[q] holds the answers the library may give for horizon q
SharpeNonIidCall(inputs, libs, return_types) ==
  /\ Idle
  /\ \E df \in inputs, bench \in Targets, q10 \in QInputs,
       p_critical \in PCriticals, return_type \in return_types :
       \E tests \in [1..NCols(df) -> libs[np_round(q10)]] :
         /\ fn' = "sharpe_non_iid"
         /\ args' = [returns |-> df, tests |-> tests, target_rtn |-> bench,
                     q10 |-> q10, p_critical |-> p_critical,
                     return_type |-> return_type]
         /\ out' = sharpe_non_iid(df, tests, bench, q10, p_critical, return_type)

AnnualizedPctReturnCall ==
  /\ Idle
  /\ \E total_return \in TotalReturns, days \in Days, ann_factor \in AnnFactors :
      /\ fn' = "annualized_pct_return"
      /\ args' = [total_return |-> total_return, days |-> days,
                  ann_factor |-> ann_factor]
      /\ out' = annualized_pct_return(total_return, days, ann_factor)

AnnualizedLogReturnCall ==
  /\ Idle
  /\ \E total_return \in TotalReturns, days \in Days, ann_factor \in AnnFactors :
      /\ fn' = "annualized_log_return"
      /\ args' = [total_return |-> total_return, days |-> days,
                  ann_factor |-> ann_factor]
      /\ out' = annualized_log_return(total_return, days, ann_factor)

\* the lower partial moment and kappa, at every moment order
CallLPM == LPMCall(Inputs1)

CallKappa == KappaCall(Inputs1, Moments)

NextLPM == CallLPM \/ CallKappa

SpecLPM == Init /\ [][NextLPM]_vars

\* the Sortino formulations
CallSortino == SortinoCall(Inputs1)

CallSortinoIid == SortinoIidCall(Inputs1)

CallKappa2 == KappaCall(Inputs1, {2})

NextSortino == CallSortino \/ CallSortinoIid \/ CallKappa2

SpecSortino == Init /\ [][NextSortino]_vars

\* the Sharpe ratio, point-in-time and rolling
CallSharpeIid == SharpeIidCall(Inputs1)

CallSharpeIidRolling == SharpeIidRollingCall(Inputs1)

NextSharpe == CallSharpeIid \/ CallSharpeIidRolling

SpecSharpe == Init /\ [][NextSharpe]_vars

\* the ratios on two-column inputs
ColumnsKappa == KappaCall(Inputs2, {1, 2, 3})

ColumnsOmega == OmegaCall(Inputs2)

ColumnsSortino == SortinoCall(Inputs2)

ColumnsSharpeIid == SharpeIidCall(Inputs2)

NextColumns == ColumnsKappa \/ ColumnsOmega \/ ColumnsSortino \/ ColumnsSharpeIid

SpecColumns == Init /\ [][NextColumns]_vars

\* the autocorrelation adjustment
CallSharpeAutocorrFactor == SharpeAutocorrFactorCall

CallSharpeNonIid ==
  SharpeNonIidCall(NonIidInputs, [q \in 1..MaxQ |-> ThinLibs(q)], {"pct", "log"})

NextNonIid == CallSharpeAutocorrFactor \/ CallSharpeNonIid

SpecNonIid == Init /\ [][NextNonIid]_vars

\* every entry point that takes a return_type
EntryKappa == KappaCall(InputsFew, {1, 2, 3})

EntryKappa3 == Kappa3Call(InputsFew)

EntryOmega == OmegaCall(InputsFew)

EntryOmegaEmpirical == OmegaEmpiricalCall(InputsFew1)

EntrySortino == SortinoCall(InputsFew)

EntrySortinoIid == SortinoIidCall(InputsFew)

EntrySharpeIid == SharpeIidCall(InputsFew)

EntrySharpeIidRolling == SharpeIidRollingCall(InputsFew1)

EntrySharpeIidAdjusted == SharpeIidAdjustedCall(InputsFew)

EntrySharpeNonIid ==
  SharpeNonIidCall(InputsFew, [q \in 1..MaxQ |-> FewLibs(q)], ReturnTypes)

NextEntry ==
  \/ EntryKappa \/ EntryKappa3 \/ EntryOmega \/ EntryOmegaEmpirical
  \/ EntrySortino \/ EntrySortinoIid
  \/ EntrySharpeIid \/ EntrySharpeIidRolling \/ EntrySharpeIidAdjusted
  \/ EntrySharpeNonIid

SpecEntry == Init /\ [][NextEntry]_vars

\* the annualizers
CallAnnualizedPctReturn == AnnualizedPctReturnCall

CallAnnualizedLogReturn == AnnualizedLogReturnCall

NextAnnual == CallAnnualizedPctReturn \/ CallAnnualizedLogReturn

SpecAnnual == Init /\ [][NextAnnual]_vars

-----------------------------------------------------------------------------
(* The lower partial moment: C3, C9 *)

Below(e, t) == ~e.nan /\ e.v < t

HasObservation(col) == \E i \in 1..Len(col) : ~col[i].nan

HasShortfall(col, t) == \E i \in 1..Len(col) : Below(col[i], t)

\* C3, as stated: for every series, target and moment order n >= 1, LPM is a
\* number that is never negative, and is 0 exactly when no observation of the
\* series is below the target.
LPMZeroIffNoShortfall ==
  (fn = "LPM" /\ args.moment >= 1) =>
    \A c \in 1..NCols(args.returns) :
      /\ IsFinite(out.value[c])
      /\ out.value[c].s >= 0
      /\ out.value[c] = NumZero <=> ~HasShortfall(args.returns.cols[c], args.target_rtn)

\* C3, amended: the same for every series that has at least one observation
\* that is not missing; for a series with none (empty, or all NaN) LPM is NaN.
LPMZeroIffNoShortfallObserved ==
  (fn = "LPM" /\ args.moment >= 1) =>
    \A c \in 1..NCols(args.returns) :
      IF HasObservation(args.returns.cols[c])
      THEN /\ IsFinite(out.value[c])
           /\ out.value[c].s >= 0
           /\ out.value[c] = NumZero
                <=> ~HasShortfall(args.returns.cols[c], args.target_rtn)
      ELSE IsNaN(out.value[c])

\* a series with a gap, an observation below the target and one above it,
\* at an odd moment order: its LPM is positive
LPMWitness ==
  /\ fn = "LPM"
  /\ args.moment = 3
  /\ \E i \in 1..Len(args.returns.cols[1]) : args.returns.cols[1][i].nan
  /\ HasShortfall(args.returns.cols[1], args.target_rtn)
  /\ \E i \in 1..Len(args.returns.cols[1]) :
       ~args.returns.cols[1][i].nan /\ args.returns.cols[1][i].v > args.target_rtn
  /\ IsFinite(out.value[1]) /\ out.value[1].s > 0

\* C9, as stated: a moment order below 1 passed to LPM or kappa ends in an
\* error raised before any computation on the series.
InvalidMomentRejected ==
  (fn \in {"LPM", "kappa"} /\ args.moment < 1) =>
    out.status = "raise" /\ out.trace = <<>>

-----------------------------------------------------------------------------
(* The Sortino formulations: C2 *)

Scaled(factor, values) == [c \in 1..Len(values) |-> NumMul(Rat(factor, 1), values[c])]

\* C2, as stated: for every series, target, factor and both return types,
\* sortino returns what sortino_iid returns and what factor * kappa at moment 2
\* returns, for the same inputs.
SortinoFormulationsAgree ==
  (fn = "sortino" /\ out.status = "return") =>
    /\ out.value = sortino_iid(args.returns, args.target_rtn, args.factor,
                               args.return_type).value
    /\ out.value = Scaled(args.factor,
                          kappa(args.returns, args.target_rtn, 2,
                                args.return_type).value)

-----------------------------------------------------------------------------
(* The Sharpe ratios: C6, C7 *)

RollingHeadMissing ==
  (fn = "sharpe_iid_rolling" /\ out.status = "return") =>
    \A i \in 1..Len(out.value) : i <= args.window - 1 => IsNaN(out.value[i])

\* a window of 3 over a series of 3 or more: the third output is a number
RollingWitness ==
  /\ fn = "sharpe_iid_rolling"
  /\ out.status = "return"
  /\ args.window = 3
  /\ Len(out.value) >= 3
  /\ IsNaN(out.value[1]) /\ IsNaN(out.value[2])
  /\ IsFinite(out.value[3]) /\ out.value[3].s # 0

-----------------------------------------------------------------------------
(* Validation of return_type: C1 *)

EntryPoints ==
  {"kappa", "kappa3", "omega", "omega_empirical", "sortino", "sortino_iid",
   "sharpe_iid", "sharpe_iid_rolling", "sharpe_iid_adjusted", "sharpe_non_iid"}

\* C1: every ratio entry point called with a return_type other than 'pct' and
\* 'log' ends in an error, for every input, raised before any numeric
\* operation on the series has run; no value is returned.
InvalidReturnTypeFailsFirst ==
  (fn \in EntryPoints /\ args.return_type \notin {"pct", "log"}) =>
    /\ out.status = "raise"
    /\ out.exc = "AssertionError"
    /\ out.trace = <<>>

\* sharpe_non_iid, which validates only through sharpe_iid, on a frame
InvalidReturnTypeWitness ==
  /\ fn = "sharpe_non_iid"
  /\ args.returns.kind = "DataFrame"
  /\ args.return_type = "simple"
  /\ out.status = "raise"

-----------------------------------------------------------------------------
(* Columns: C4 *)

\* column c of x alone, in the same kind of container
Single(x, c) ==
  IF x.kind = "DataFrame" THEN Series(x.cols[c]) ELSE Array(<<x.cols[c]>>)

\* the function of the last call, on other returns
Again(returns) ==
  CASE fn = "kappa" ->
         kappa(returns, args.target_rtn, args.moment, args.return_type)
    [] fn = "omega" -> omega(returns, args.target_rtn, args.return_type)
    [] fn = "sortino" ->
         sortino(returns, args.target_rtn, args.factor, args.return_type)
    [] fn = "sharpe_iid" ->
         sharpe_iid(returns, args.target_rtn, args.factor, args.return_type)

\* C4: for a multi-column input, what a ratio function returns for a column is
\* what it returns for that column alone; the other columns do not matter.
ColumnsIndependent ==
  (fn \in {"kappa", "omega", "sortino", "sharpe_iid"} /\ out.status = "return") =>
    \A c \in 1..NCols(args.returns) :
      out.value[c] = Again(Single(args.returns, c)).value[1]

-----------------------------------------------------------------------------
(* The autocorrelation adjustment: C5, C10 *)

\* C5: for each series (each column of a frame by itself), the result of
\* sharpe_non_iid is sharpe_iid at factor 1 times the factor returned by
\* sharpe_autocorr_factor when its p-value is strictly below p_critical, and
\* times sqrt(q) otherwise.
NonIidDecisionPerSeries ==
  (fn = "sharpe_non_iid" /\ out.status = "return") =>
    \A c \in 1..NCols(args.returns) :
      LET q == np_round(args.q10)
          test == sharpe_autocorr_factor(args.tests[c], q).value
          sr == sharpe_iid(Single(args.returns, c), args.target_rtn, 1,
                           args.return_type).value[1]
      IN  out.value[c] = IF test[2] < args.p_critical
                         THEN NumMul(sr, test[1])
                         ELSE NumMul(sr, NumRoot(Rat(q, 1), 2))

\* a frame of two equal columns with equal autocorrelations at horizon 3: the
\* first rejects the null, the second, with a p-value at the critical value,
\* does not, and the two results differ
NonIidWitness ==
  /\ fn = "sharpe_non_iid"
  /\ out.status = "return"
  /\ args.returns.kind = "DataFrame"
  /\ np_round(args.q10) = 3
  /\ args.returns.cols[1] = args.returns.cols[2]
  /\ args.tests[1].acf = args.tests[2].acf
  /\ args.tests[1].pval[2] < args.p_critical
  /\ args.tests[2].pval[2] = args.p_critical
  /\ IsFinite(out.value[1]) /\ IsFinite(out.value[2])
  /\ out.value[1] # out.value[2]

\* C10, as stated: for q >= 2 the factor is q / sqrt(q + 2 * S) with S the sum
\* over every lag 1 .. q-1 of (q - lag) * acf[lag], and the p-value returned is
\* the Ljung-Box p-value at lag q - 1.
LoFactorCoversAllLags ==
  (fn = "sharpe_autocorr_factor" /\ args.q >= 2) =>
    /\ out.status = "return"
    /\ out.value[1] = LoFactor(args.lib, args.q, LoLagsAll(args.q))
    /\ out.value[2] = args.lib.pval[args.q - 1]

-----------------------------------------------------------------------------
(* The annualizers: C8 *)

\* C8, as stated: with days == 0 both annualizers end in an error, for every
\* total_return and ann_factor; nothing is returned.
ZeroDaysFails ==
  (fn \in {"annualized_pct_return", "annualized_log_return"}
     /\ args.days.x = NumZero) =>
    out.status = "raise"

====
